---- MODULE Spec2Model ----
(***************************************************************************)
(* A model of multi_thread_http_server/server.py: the accept loop          *)
(* (start_server), the worker pool (ThreadPool) and the per-connection     *)
(* handler (handle_client_connection with handle_get / handle_post).       *)
(*                                                                         *)
(* Connections are numbered 1..n in the order accept() returns them.       *)
(* The main thread and every worker thread take one step at a time; a      *)
(* step is a piece of code that touches shared state (the queue, the       *)
(* counter, a socket) at most once, or a piece that is local to one        *)
(* thread.  One pass through the body of the handler's while loop is       *)
(* local to the worker that owns the connection and is one step.           *)
(***************************************************************************)
EXTENDS Integers, Sequences, FiniteSets, TLC

(***************************************************************************)
(* Sizes.  The program's values are 10 workers, a queue of 200 and 100     *)
(* requests per connection (server.py:32,34,38); the model keeps the       *)
(* names and checks with small values.                                     *)
(***************************************************************************)
max_workers == 2
CONN_QUEUE_MAX == 1
KEEP_ALIVE_MAX_REQUESTS == 2
\* connections that arrive while the server runs
NumConns == 4

KEEP_ALIVE_TIMEOUT == 30
DEFAULT_HOST == "127.0.0.1"
DEFAULT_PORT == 8080
SERVER_NAME == "Multi-threaded HTTP Server"
\* start_server's globals, set from the defaults of the entry point
SERVER_HOST == DEFAULT_HOST
SERVER_PORT == DEFAULT_PORT

Workers == 1..max_workers
Conns == 1..NumConns
NoConn == 0

VARIABLES
    arrived,          \* number of connections accept() has returned
    sock,             \* sock[c]: "none" (not accepted yet), "open", "closed"
    task_queue,       \* ThreadPool.task_queue: sequence of connections
    active_count,     \* ThreadPool.active_count
    main_pc,          \* where the accept loop is
    main_conn,        \* start_server's client_sock
    accepted,         \* accepted[c]: result of pool.submit for c: "none", "yes", "no"
    sent503,          \* sent503[c]: what the accept loop wrote on c: NoResp, "failed" or a response
    w_pc,             \* w_pc[w]: where worker w is
    w_conn,           \* w_conn[w]: _worker_loop's client_sock
    raised,           \* raised[w]: an exception is propagating out of the handler
    logged,           \* logged[w]: the worker loop has logged that exception
    handled,          \* handled[c]: number of calls handle_client_connection(c, ..)
    requests_handled, \* handler local, per worker
    keep_alive,       \* handler local, per worker
    reads,            \* reads[w]: number of recv_all calls of the current handler call
    req,              \* req[w]: what the last recv_all / parse_http_request gave
    written,          \* written[w]: responses written for that request, in order
    main_exc,         \* the last exception raised inside the accept loop, and
                      \* whether log() was called for it
    call              \* a function or a class exercised on its own: its
                      \* arguments, its locals or fields, and its result

vars == <<arrived, sock, task_queue, active_count, main_pc, main_conn, accepted,
          sent503, w_pc, w_conn, raised, logged, handled, requests_handled, keep_alive,
          reads, req, written, main_exc, call>>

\* every variable but call
serverVars == <<arrived, sock, task_queue, active_count, main_pc, main_conn, accepted,
                sent503, w_pc, w_conn, raised, logged, handled, requests_handled, keep_alive,
                reads, req, written, main_exc>>

poolVars == <<task_queue, active_count>>
mainVars == <<arrived, main_pc, main_conn, accepted, sent503, main_exc>>
handlerVars == <<requests_handled, keep_alive, reads, req, written>>

(***************************************************************************)
(* Dictionaries are functions from names to values; a lookup is by the     *)
(* exact name, as dict.get is.                                             *)
(***************************************************************************)
EmptyDict == <<>>

DictGet(d, k, default) == IF k \in DOMAIN d THEN d[k] ELSE default

\* dict.setdefault(k, v): an entry already there is kept
SetDefault(d, k, v) == d @@ (k :> v)

\* str.lower() on the header values the model sends
Lower(s) ==
    CASE s = "Close" -> "close"
      [] s = "Keep-Alive" -> "keep-alive"
      [] OTHER -> s

(***************************************************************************)
(* Responses.  make_response fills in Date and Server; the body and its    *)
(* Content-Length are left out of the record.  src names the call site     *)
(* that wrote the response.                                                *)
(***************************************************************************)
make_response(status_code, headers, src) ==
    [status |-> status_code,
     headers |-> SetDefault(SetDefault(headers, "Date", "now"), "Server", SERVER_NAME),
     src |-> src]

\* send_error builds the response with a Content-Type header and no
\* Connection header; the write is best effort.
error_response(status_code, src) ==
    make_response(status_code, "Content-Type" :> "text/html; charset=utf-8", src)

send_error(out, status_code, src, send_ok) ==
    IF send_ok THEN Append(out, error_response(status_code, src)) ELSE out

ConnectionHeader(ka) == IF ka THEN "keep-alive" ELSE "close"

\* One sendall of a pass through the handler's loop: with net "ok" every write
\* succeeds, with "down" none does, with "drop_mid" only the first one does.
SendOk(net, first) == net = "ok" \/ (net = "drop_mid" /\ first)

(***************************************************************************)
(* valid_host_header.  A Host value is None or the text host[:port], kept  *)
(* as [host, colon, port]: colon says whether the text holds a ":", port   *)
(* is the text after the first one, host the text before it (all of it     *)
(* when there is none).                                                    *)
(***************************************************************************)
None == [none |-> TRUE]

IntStrings == {"8080", "9090", "08080", "13", "-5"}

\* int(s)
IntOf(s) ==
    CASE s = "8080" -> 8080
      [] s = "9090" -> 9090
      [] s = "08080" -> 8080
      [] s = "13" -> 13
      [] s = "-5" -> 0 - 5

\* str.strip() on the host names the model sends
Strip(s) == IF s = " " THEN "" ELSE s

\* the addresses accepted under 0.0.0.0 left out
valid_host_header_bind_only(host_header, server_host, server_port) ==
    IF host_header = None \/ (host_header.host = "" /\ ~host_header.colon)
    THEN [ok |-> FALSE, result |-> 400]
    ELSE IF host_header.colon /\ host_header.port \notin IntStrings
    THEN [ok |-> FALSE, result |-> 400]
    ELSE LET host == Strip(host_header.host)
             port == IF host_header.colon THEN IntOf(host_header.port) ELSE server_port
             acceptable_hosts ==
                 {<<server_host, server_port>>}
                 \cup (IF server_host \in {"127.0.0.1", "localhost"}
                       THEN {<<"localhost", server_port>>, <<"127.0.0.1", server_port>>}
                       ELSE {})
         IN IF <<host, port>> \in acceptable_hosts
            THEN [ok |-> TRUE, result |-> <<host, port>>]
            ELSE [ok |-> FALSE, result |-> 403]

valid_host_header(host_header, server_host, server_port) ==
    IF host_header = None \/ (host_header.host = "" /\ ~host_header.colon)
    THEN [ok |-> FALSE, result |-> 400]
    ELSE IF host_header.colon /\ host_header.port \notin IntStrings
    THEN [ok |-> FALSE, result |-> 400]
    ELSE LET host == Strip(host_header.host)
             port == IF host_header.colon THEN IntOf(host_header.port) ELSE server_port
             acceptable_hosts ==
                 {<<server_host, server_port>>}
                 \cup (IF server_host \in {"127.0.0.1", "localhost"}
                       THEN {<<"localhost", server_port>>, <<"127.0.0.1", server_port>>}
                       ELSE {})
                 \cup (IF server_host = "0.0.0.0"
                       THEN {<<"localhost", server_port>>, <<"127.0.0.1", server_port>>}
                       ELSE {})
         IN IF <<host, port>> \in acceptable_hosts
            THEN [ok |-> TRUE, result |-> <<host, port>>]
            ELSE [ok |-> FALSE, result |-> 403]

(***************************************************************************)
(* handle_get.  file says what the request target resolves to:             *)
(*   "resolve_raises"  safe_join_resources raises (urlparse rejects it)    *)
(*   "missing"         no path, or no such regular file                    *)
(*   "html"            a readable .html file                               *)
(*   "html_unreadable" a .html file whose open or read raises              *)
(*   "bin"             a readable .txt/.png/.jpg/.jpeg file                *)
(*   "bin_stat_fail"   such a file whose getsize raises                    *)
(*   "bin_read_fail"   such a file whose read raises after the head went   *)
(*   "other_ext"       a file of another extension                         *)
(* The result is the responses written so far and whether an exception     *)
(* leaves handle_get.                                                      *)
(***************************************************************************)
html_headers(ka) ==
    ("Content-Type" :> "text/html; charset=utf-8")
    @@ ("Connection" :> ConnectionHeader(ka))
    @@ ("Keep-Alive" :> <<"timeout", KEEP_ALIVE_TIMEOUT, "max", KEEP_ALIVE_MAX_REQUESTS>>)

binary_headers(ka) ==
    ("Content-Type" :> "application/octet-stream")
    @@ ("Content-Disposition" :> "attachment")
    @@ ("Connection" :> ConnectionHeader(ka))

handle_get(out, file, net, ka) ==
    CASE file = "resolve_raises" -> [out |-> out, raised |-> TRUE]
      [] file = "missing" ->
            [out |-> send_error(out, 404, "handle_get", SendOk(net, TRUE)), raised |-> FALSE]
      [] file = "html" ->
            IF SendOk(net, TRUE)
            THEN [out |-> Append(out, make_response(200, html_headers(ka), "handle_get")),
                  raised |-> FALSE]
            ELSE [out |-> send_error(out, 500, "handle_get", SendOk(net, FALSE)),
                  raised |-> FALSE]
      [] file \in {"html_unreadable", "bin_stat_fail"} ->
            [out |-> send_error(out, 500, "handle_get", SendOk(net, TRUE)), raised |-> FALSE]
      [] file \in {"bin", "bin_read_fail"} ->
            IF ~SendOk(net, TRUE)
            THEN [out |-> send_error(out, 500, "handle_get", SendOk(net, FALSE)),
                  raised |-> FALSE]
            ELSE LET head == Append(out, make_response(200, binary_headers(ka), "handle_get"))
                 IN IF file = "bin" /\ SendOk(net, FALSE)
                    THEN [out |-> head, raised |-> FALSE]
                    ELSE [out |-> send_error(head, 500, "handle_get", SendOk(net, FALSE)),
                          raised |-> FALSE]
      [] OTHER ->
            [out |-> send_error(out, 415, "handle_get", SendOk(net, TRUE)), raised |-> FALSE]

(***************************************************************************)
(* handle_post.  body says what the upload does: "json_ok", "json_bad"     *)
(* (the body is no JSON text) or "write_fail" (writing the file raises).   *)
(***************************************************************************)
\* .split(";", 1)[0].strip() on the Content-Type values the model sends
MediaType(s) ==
    CASE s = "application/json; charset=utf-8" -> "application/json"
      [] OTHER -> s

post_headers(ka) ==
    ("Content-Type" :> "application/json")
    @@ ("Connection" :> ConnectionHeader(ka))

handle_post(out, headers, body, net, ka) ==
    LET content_type == MediaType(DictGet(headers, "Content-Type", ""))
    IN CASE content_type # "application/json" ->
                send_error(out, 415, "handle_post", SendOk(net, TRUE))
         [] body = "json_bad" ->
                send_error(out, 400, "handle_post", SendOk(net, TRUE))
         [] body = "write_fail" ->
                send_error(out, 500, "handle_post", SendOk(net, TRUE))
         [] OTHER ->
                IF SendOk(net, TRUE)
                THEN Append(out, make_response(201, post_headers(ka), "handle_post"))
                ELSE send_error(out, 500, "handle_post", SendOk(net, FALSE))

(***************************************************************************)
(* One pass through the body of handle_client_connection's while loop      *)
(* (entered with keep_alive true).  inp is what the network and the file   *)
(* system give during the pass:                                            *)
(*   [raw |-> "empty"]      recv_all returns b"" (timeout, peer shutdown,  *)
(*                          receive error)                                 *)
(*   [raw |-> "malformed"]  parse_http_request returns None                *)
(*   [raw |-> "request"]    a parsed request: method, version, headers,    *)
(*                          with file (for GET) and body (for POST)        *)
(* The result holds the handler's locals after the pass and next: "loop"   *)
(* when the while condition is tested again, "closing" after a break or a  *)
(* false keep_alive.                                                       *)
(***************************************************************************)
CapReachedOffByOne(n) == n > KEEP_ALIVE_MAX_REQUESTS

CapReachedNever(n) == FALSE

CapReached(n) == n >= KEEP_ALIVE_MAX_REQUESTS

KeepAliveDecision(version, headers) ==
    LET conn_hdr == Lower(DictGet(headers, "Connection", ""))
    IN IF version = "HTTP/1.1" THEN conn_hdr # "close" ELSE conn_hdr = "keep-alive"

\* a break out of the loop: requests_handled is not incremented
BreakMissing(rh, ka, rd, inp, out) ==
    [requests_handled |-> rh, keep_alive |-> ka, reads |-> rd, req |-> inp,
     written |-> out, next |-> "loop"]

Break(rh, ka, rd, inp, out) ==
    [requests_handled |-> rh, keep_alive |-> ka, reads |-> rd, req |-> inp,
     written |-> out, next |-> "closing"]

\* the end of the pass: requests_handled += 1; if not keep_alive: break
Served(rh, ka, rd, inp, out) ==
    [requests_handled |-> rh + 1, keep_alive |-> ka, reads |-> rd, req |-> inp,
     written |-> out, next |-> IF ka THEN "loop" ELSE "closing"]

Dispatch(rh, ka, rd, inp) ==
    CASE inp.method = "GET" ->
            LET g == handle_get(<<>>, inp.file, inp.net, ka)
            IN IF g.raised
               THEN Break(rh, ka, rd, inp,
                          send_error(g.out, 500, "unexpected", SendOk(inp.net, g.out = <<>>)))
               ELSE Served(rh, ka, rd, inp, g.out)
      [] inp.method = "POST" ->
            LET content_length == DictGet(inp.headers, "Content-Length", "")
            IN IF content_length # "" /\ content_length \notin IntStrings
               THEN Break(rh, ka, rd, inp,
                          send_error(<<>>, 400, "content_length", SendOk(inp.net, TRUE)))
               ELSE Served(rh, ka, rd, inp,
                           handle_post(<<>>, inp.headers, inp.body, inp.net, ka))
      [] OTHER ->
            Served(rh, ka, rd, inp, send_error(<<>>, 405, "method", SendOk(inp.net, TRUE)))

\* the Host check made after the method is looked at
HostCheckForGetAndPostOnly(inp) ==
    IF inp.method \notin {"GET", "POST"}
    THEN [ok |-> TRUE, result |-> <<>>]
    ELSE valid_host_header(DictGet(inp.headers, "Host", None), SERVER_HOST, SERVER_PORT)

\* ok, host_result = valid_host_header(headers.get("Host"), SERVER_HOST, SERVER_PORT)
HostCheck(inp) ==
    valid_host_header(DictGet(inp.headers, "Host", None), SERVER_HOST, SERVER_PORT)

\* if not raw: break
NoDataAnswered(rh, ka, rd, inp) ==
    Break(rh, ka, rd + 1, inp, send_error(<<>>, 400, "parse", TRUE))

NoData(rh, ka, rd, inp) == Break(rh, ka, rd + 1, inp, <<>>)

Iteration(rh, ka, rd, rq, wr, inp) ==
    IF CapReached(rh)
    THEN Break(rh, ka, rd, rq, wr)
    ELSE IF inp.raw = "empty"
    THEN NoData(rh, ka, rd, inp)
    ELSE IF inp.raw = "malformed"
    THEN Break(rh, ka, rd + 1, inp, send_error(<<>>, 400, "parse", SendOk(inp.net, TRUE)))
    ELSE LET host == HostCheck(inp)
         IN IF ~host.ok
            THEN Break(rh, ka, rd + 1, inp,
                       send_error(<<>>, host.result, "host", SendOk(inp.net, TRUE)))
            ELSE Dispatch(rh, KeepAliveDecision(inp.version, inp.headers), rd + 1, inp)

(***************************************************************************)
(* The inputs of a pass.                                                   *)
(***************************************************************************)
LocalHost == [host |-> "127.0.0.1", colon |-> TRUE, port |-> "8080"]

GoodHost == "Host" :> LocalHost

\* no Host header, a Host header under another spelling of its name, a
\* foreign host, a port that is no integer
BadHosts ==
    {EmptyDict,
     "host" :> LocalHost,
     "Host" :> [host |-> "evil.example", colon |-> FALSE, port |-> ""],
     "Host" :> [host |-> "127.0.0.1", colon |-> TRUE, port |-> "abc"]}

ConnectionHeaders ==
    {EmptyDict,
     "Connection" :> "close",
     "Connection" :> "Close",
     "Connection" :> "keep-alive",
     "connection" :> "close",
     "connection" :> "keep-alive"}

JsonType == "Content-Type" :> "application/json"

TextType == "Content-Type" :> "text/plain"

ContentLengths == {EmptyDict, "Content-Length" :> "13"}

Versions == {"HTTP/1.1", "HTTP/1.0"}

Files == {"resolve_raises", "missing", "html", "html_unreadable", "bin",
          "bin_stat_fail", "bin_read_fail", "other_ext"}

Bodies == {"json_ok", "json_bad", "write_fail"}

Request(method, version, headers, file, body, net) ==
    [raw |-> "request", method |-> method, version |-> version, headers |-> headers,
     file |-> file, body |-> body, net |-> net]

EmptyRead == [raw |-> "empty"]

\* requests that fail Host validation, of every method
BadHostRequests ==
    {Request(m, v, h @@ c, "html", "json_ok", n) :
        m \in {"GET", "POST", "PUT"}, v \in Versions, h \in BadHosts,
        c \in {EmptyDict, "Connection" :> "keep-alive"}, n \in {"ok", "down"}}

GetRequests ==
    {Request("GET", v, GoodHost @@ c, f, "none", n) :
        v \in Versions, c \in ConnectionHeaders, f \in Files, n \in {"ok", "down"}}
    \cup {Request("GET", v, GoodHost @@ c, "bin", "none", "drop_mid") :
            v \in Versions, c \in ConnectionHeaders}

PostRequests ==
    {Request("POST", v, GoodHost @@ c @@ JsonType @@ cl, "none", b, n) :
        v \in Versions, c \in ConnectionHeaders, cl \in ContentLengths,
        b \in Bodies, n \in {"ok", "down"}}
    \cup {Request("POST", v, GoodHost @@ c @@ TextType @@ cl, "none", "json_ok", n) :
            v \in Versions, c \in ConnectionHeaders, cl \in ContentLengths,
            n \in {"ok", "down"}}
    \cup {Request("POST", v, GoodHost @@ c @@ ct @@ ("Content-Length" :> cl),
                  "none", "json_ok", n) :
            v \in Versions, c \in ConnectionHeaders, ct \in {JsonType, TextType},
            cl \in {"abc", "-5"}, n \in {"ok", "down"}}

OtherRequests ==
    {Request("PUT", v, GoodHost @@ c, "none", "none", n) :
        v \in Versions, c \in ConnectionHeaders, n \in {"ok", "down"}}

\* POST requests whose Content-Type or Content-Length header is sent under
\* a lower-case name
LowerCaseRequests ==
    {Request("POST", "HTTP/1.1", GoodHost @@ ("content-type" :> "application/json"),
             "none", "json_ok", "ok"),
     Request("POST", "HTTP/1.1", GoodHost @@ JsonType @@ ("content-length" :> "abc"),
             "none", "json_ok", "ok")}

AllInputs ==
    {EmptyRead, [raw |-> "malformed", net |-> "ok"], [raw |-> "malformed", net |-> "down"]}
    \cup BadHostRequests \cup GetRequests \cup PostRequests \cup OtherRequests
    \cup LowerCaseRequests

\* what the connections of the loaded pool send: nothing, or one request
\* that is served and ends the connection
PoolInputs ==
    {EmptyRead,
     Request("GET", "HTTP/1.0", GoodHost, "html", "none", "ok")}

NoReq == [raw |-> "none"]

NoException == [kind |-> "none", logged |-> FALSE]

\* except Exception: pass
SwallowedException == [kind |-> "Exception", logged |-> FALSE]

NoCall == [fn |-> "none"]

(***************************************************************************)
(* The state after ThreadPool(max_threads) is built and the listening      *)
(* socket is open: every worker blocks in task_queue.get().                *)
(***************************************************************************)
ServerStart ==
    /\ arrived = 0
    /\ sock = [c \in Conns |-> "none"]
    /\ task_queue = <<>>
    /\ active_count = 0
    /\ main_pc = "accept"
    /\ main_conn = NoConn
    /\ accepted = [c \in Conns |-> "none"]
    /\ sent503 = [c \in Conns |-> <<>>]
    /\ w_pc = [w \in Workers |-> "get"]
    /\ w_conn = [w \in Workers |-> NoConn]
    /\ raised = [w \in Workers |-> FALSE]
    /\ logged = [w \in Workers |-> FALSE]
    /\ handled = [c \in Conns |-> 0]
    /\ requests_handled = [w \in Workers |-> 0]
    /\ keep_alive = [w \in Workers |-> TRUE]
    /\ reads = [w \in Workers |-> 0]
    /\ req = [w \in Workers |-> NoReq]
    /\ written = [w \in Workers |-> <<>>]
    /\ main_exc = NoException

Init == ServerStart /\ call = NoCall

(***************************************************************************)
(* The accept loop of start_server.                                        *)
(***************************************************************************)
\* socket.close()
CloseSocket(s, c) == [s EXCEPT ![c] = "closed"]

\* queue.Queue(maxsize=CONN_QUEUE_MAX).put_nowait: there is room
QueueHasRoomIfWorkerFree(q) == Len(q) < CONN_QUEUE_MAX /\ active_count < max_workers

QueueHasRoomOffByOne(q) == Len(q) + 1 < CONN_QUEUE_MAX

QueueHasRoom(q) == Len(q) < CONN_QUEUE_MAX

\* client_sock, client_addr = server_sock.accept()
Accept(n) ==
    /\ main_pc = "accept"
    /\ arrived < n
    /\ arrived' = arrived + 1
    /\ sock' = [sock EXCEPT ![arrived + 1] = "open"]
    /\ main_conn' = arrived + 1
    /\ main_pc' = "submit"
    /\ UNCHANGED <<call, logged, main_exc, poolVars, accepted, sent503, w_pc, w_conn, raised,
                   handled, handlerVars>>

\* accepted = pool.submit(client_sock, client_addr)
Submit ==
    /\ main_pc = "submit"
    /\ IF QueueHasRoom(task_queue)
       THEN /\ task_queue' = Append(task_queue, main_conn)
            /\ accepted' = [accepted EXCEPT ![main_conn] = "yes"]
            /\ main_pc' = "accept"
       ELSE /\ task_queue' = task_queue
            /\ accepted' = [accepted EXCEPT ![main_conn] = "no"]
            /\ main_pc' = "reject"
    /\ UNCHANGED <<call, logged, main_exc, arrived, sock, active_count, main_conn, sent503, w_pc,
                   w_conn, raised, handled, handlerVars>>

service_unavailable ==
    make_response(503,
                  ("Retry-After" :> "5")
                  @@ ("Content-Type" :> "text/html; charset=utf-8")
                  @@ ("Connection" :> "close"),
                  "accept")

\* client_sock.sendall(make_response(503, ...)): when the write raises, the
\* except clause of the loop body swallows the exception and the loop goes on
Reject503(send_ok) ==
    /\ main_pc = "reject"
    /\ IF send_ok
       THEN /\ sent503' = [sent503 EXCEPT ![main_conn] = <<service_unavailable>>]
            /\ main_exc' = main_exc
            /\ main_pc' = "close"
       ELSE /\ sent503' = sent503
            /\ main_exc' = SwallowedException
            /\ main_pc' = "accept"
    /\ UNCHANGED <<call, logged, arrived, sock, poolVars, main_conn, accepted, w_pc, w_conn, raised,
                   handled, handlerVars>>

\* client_sock.close() of the rejection branch
RejectClose ==
    /\ main_pc = "close"
    /\ sock' = CloseSocket(sock, main_conn)
    /\ main_pc' = "accept"
    /\ UNCHANGED <<call, logged, main_exc, arrived, poolVars, main_conn, accepted, sent503, w_pc,
                   w_conn, raised, handled, handlerVars>>

(***************************************************************************)
(* ThreadPool._worker_loop.                                                *)
(***************************************************************************)
\* what task_queue.get() leaves in the queue
QueueAfterPeek(q) == q

QueueAfterGet(q) == Tail(q)

\* client_sock, client_addr = self.task_queue.get()
Dequeue(w) ==
    /\ w_pc[w] = "get"
    /\ task_queue # <<>>
    /\ w_conn' = [w_conn EXCEPT ![w] = Head(task_queue)]
    /\ task_queue' = QueueAfterGet(task_queue)
    /\ w_pc' = [w_pc EXCEPT ![w] = "inc"]
    /\ UNCHANGED <<call, logged, mainVars, sock, active_count, raised, handled, handlerVars>>

\* with self.active_workers_lock: self.active_count += 1
IncActive(w) ==
    /\ w_pc[w] = "inc"
    /\ active_count' = active_count + 1
    /\ w_pc' = [w_pc EXCEPT ![w] = "call"]
    /\ UNCHANGED <<call, logged, mainVars, sock, task_queue, w_conn, raised, handled, handlerVars>>

\* the except clause around the handler call: the exception is logged
ExceptLog(w) ==
    /\ w_pc[w] = "except"
    /\ logged' = [logged EXCEPT ![w] = TRUE]
    /\ w_pc' = [w_pc EXCEPT ![w] = "finally"]
    /\ UNCHANGED <<call, mainVars, sock, poolVars, w_conn, raised, handled, handlerVars>>

\* the counter after the handler call; exc: the call raised
ActiveAfterHandlerNoFinally(n, exc) == IF exc THEN n ELSE n - 1

ActiveAfterHandler(n, exc) == n - 1

\* where the worker goes after the finally clause; exc: the call raised
AfterFinallyDiesOnException(exc) == IF exc THEN "dead" ELSE "get"

AfterFinally(exc) == "get"

\* the finally clause: close the socket, decrement the counter, task_done()
Finally(w) ==
    /\ w_pc[w] = "finally"
    /\ sock' = CloseSocket(sock, w_conn[w])
    /\ active_count' = ActiveAfterHandler(active_count, raised[w])
    /\ w_conn' = [w_conn EXCEPT ![w] = NoConn]
    /\ raised' = [raised EXCEPT ![w] = FALSE]
    /\ logged' = [logged EXCEPT ![w] = FALSE]
    /\ w_pc' = [w_pc EXCEPT ![w] = AfterFinally(raised[w])]
    /\ UNCHANGED <<call, mainVars, task_queue, handled, handlerVars>>

(***************************************************************************)
(* handle_client_connection, called by worker w on w_conn[w].              *)
(***************************************************************************)
\* the call and the lines before the loop: the log line, settimeout, the
\* locals.  fault: one of these lines raises.
HandlerEnter(w, fault) ==
    /\ w_pc[w] = "call"
    /\ handled' = [handled EXCEPT ![w_conn[w]] = @ + 1]
    /\ requests_handled' = [requests_handled EXCEPT ![w] = 0]
    /\ keep_alive' = [keep_alive EXCEPT ![w] = TRUE]
    /\ reads' = [reads EXCEPT ![w] = 0]
    /\ req' = [req EXCEPT ![w] = NoReq]
    /\ written' = [written EXCEPT ![w] = <<>>]
    /\ raised' = [raised EXCEPT ![w] = fault]
    /\ w_pc' = [w_pc EXCEPT ![w] = IF fault THEN "except" ELSE "loop"]
    /\ UNCHANGED <<call, logged, mainVars, sock, poolVars, w_conn>>

\* one pass through the while loop
Iterate(w, inp) ==
    /\ w_pc[w] = "loop"
    /\ LET r == Iteration(requests_handled[w], keep_alive[w], reads[w], req[w],
                          written[w], inp)
       IN /\ requests_handled' = [requests_handled EXCEPT ![w] = r.requests_handled]
          /\ keep_alive' = [keep_alive EXCEPT ![w] = r.keep_alive]
          /\ reads' = [reads EXCEPT ![w] = r.reads]
          /\ req' = [req EXCEPT ![w] = r.req]
          /\ written' = [written EXCEPT ![w] = r.written]
          /\ w_pc' = [w_pc EXCEPT ![w] = r.next]
    /\ UNCHANGED <<call, logged, mainVars, sock, poolVars, w_conn, raised, handled>>

\* after the loop: shutdown and close, each in its own try, then the log
\* line.  The result is the sockets after the two statements.
TeardownInOneTry(s, c, shutdown_ok) == IF shutdown_ok THEN CloseSocket(s, c) ELSE s

Teardown(s, c, shutdown_ok) == CloseSocket(s, c)

\* fault: the closing log line raises.  The locals end with the call.
HandlerClose(w, shutdown_ok, fault) ==
    /\ w_pc[w] = "closing"
    /\ sock' = Teardown(sock, w_conn[w], shutdown_ok)
    /\ raised' = [raised EXCEPT ![w] = fault]
    /\ w_pc' = [w_pc EXCEPT ![w] = IF fault THEN "except" ELSE "finally"]
    /\ requests_handled' = [requests_handled EXCEPT ![w] = 0]
    /\ keep_alive' = [keep_alive EXCEPT ![w] = TRUE]
    /\ reads' = [reads EXCEPT ![w] = 0]
    /\ req' = [req EXCEPT ![w] = NoReq]
    /\ written' = [written EXCEPT ![w] = <<>>]
    /\ UNCHANGED <<call, logged, mainVars, poolVars, w_conn, handled>>

(***************************************************************************)
(* Spec: the server under load.  NumConns connections arrive; each sends   *)
(* one of PoolInputs at every read.                                        *)
(***************************************************************************)
WorkerStep(w) ==
    \/ Dequeue(w)
    \/ IncActive(w)
    \/ \E fault \in BOOLEAN : HandlerEnter(w, fault)
    \/ \E shutdown_ok \in BOOLEAN, fault \in BOOLEAN : HandlerClose(w, shutdown_ok, fault)
    \/ ExceptLog(w)
    \/ Finally(w)

Next ==
    \/ Accept(NumConns)
    \/ Submit
    \/ \E send_ok \in BOOLEAN : Reject503(send_ok)
    \/ RejectClose
    \/ \E w \in Workers : WorkerStep(w)
    \/ \E w \in Workers, inp \in PoolInputs : Iterate(w, inp)

Spec == Init /\ [][Next]_vars

(***************************************************************************)
(* SpecConn: the life of one admitted connection.  It starts where         *)
(* connection 1 has been accepted and queued and no other connection       *)
(* arrives; the connection sends any of AllInputs at every read.           *)
(***************************************************************************)
InitConn ==
    /\ arrived = 1
    /\ sock = [c \in Conns |-> IF c = 1 THEN "open" ELSE "none"]
    /\ task_queue = <<1>>
    /\ active_count = 0
    /\ main_pc = "accept"
    /\ main_conn = 1
    /\ accepted = [c \in Conns |-> IF c = 1 THEN "yes" ELSE "none"]
    /\ sent503 = [c \in Conns |-> <<>>]
    /\ w_pc = [w \in Workers |-> "get"]
    /\ w_conn = [w \in Workers |-> NoConn]
    /\ raised = [w \in Workers |-> FALSE]
    /\ logged = [w \in Workers |-> FALSE]
    /\ handled = [c \in Conns |-> 0]
    /\ requests_handled = [w \in Workers |-> 0]
    /\ keep_alive = [w \in Workers |-> TRUE]
    /\ reads = [w \in Workers |-> 0]
    /\ req = [w \in Workers |-> NoReq]
    /\ written = [w \in Workers |-> <<>>]
    /\ main_exc = NoException
    /\ call = NoCall

NextConn ==
    \/ \E w \in Workers : WorkerStep(w)
    \/ \E w \in Workers, inp \in AllInputs : Iterate(w, inp)

SpecConn == InitConn /\ [][NextConn]_vars

(***************************************************************************)
(* Properties of the pool and the accept loop, under Spec.                 *)
(***************************************************************************)
InQueue(c) == Cardinality({i \in 1..Len(task_queue) : task_queue[i] = c})

Holders(c) == {w \in Workers : w_conn[w] = c}

\* workers that hold a dequeued connection
Busy == {w \in Workers : w_conn[w] # NoConn}

Admitted == {c \in Conns : accepted[c] = "yes"}

\* the worker that held c has left its finally clause
Completed(c) == accepted[c] = "yes" /\ InQueue(c) = 0 /\ Holders(c) = {}

\* C1: every connection passed to submit is either rejected and never
\* handled, or admitted and then in exactly one place: waiting in the queue
\* once, held by exactly one worker, or completed; and
\* handle_client_connection is called on it at most once, exactly once by
\* the time it is completed.
C1_HandledExactlyOnce ==
    \A c \in Conns :
        /\ handled[c] <= 1
        /\ Cardinality(Holders(c)) <= 1
        /\ accepted[c] # "yes" => handled[c] = 0 /\ InQueue(c) = 0 /\ Holders(c) = {}
        /\ accepted[c] = "yes" =>
              /\ InQueue(c) + Cardinality(Holders(c)) <= 1
              /\ InQueue(c) = 1 => handled[c] = 0
              /\ Completed(c) => handled[c] = 1
              /\ \A w \in Holders(c) :
                    handled[c] = IF w_pc[w] \in {"inc", "call"} THEN 0 ELSE 1

C1_Witness ==
    \E c1, c2, c3, c4 \in Conns :
        /\ accepted[c1] = "no"
        /\ Completed(c2)
        /\ c3 # c4
        /\ \E w3, w4 \in Workers :
              /\ w3 # w4
              /\ w_conn[w3] = c3 /\ w_pc[w3] = "loop"
              /\ w_conn[w4] = c4 /\ w_pc[w4] = "loop"

\* C2: the counter stays within 0..max_workers and the queue within its
\* capacity.
C2_PoolBounds ==
    /\ active_count \in 0..max_workers
    /\ Len(task_queue) <= CONN_QUEUE_MAX

C2_Witness ==
    /\ active_count = max_workers
    /\ Len(task_queue) = CONN_QUEUE_MAX
    /\ \E c \in Conns : Completed(c)
    /\ \E w \in Workers : raised[w]

\* C3: submit can always return; it admits the connection and appends it
\* when the queue holds fewer than CONN_QUEUE_MAX items, and rejects it and
\* leaves the queue alone when the queue is full, whatever active_count is.
C3_SubmitByQueueLength ==
    /\ [][main_pc = "submit" /\ main_pc' # "submit" =>
            IF Len(task_queue) < CONN_QUEUE_MAX
            THEN /\ accepted'[main_conn] = "yes"
                 /\ task_queue' = Append(task_queue, main_conn)
            ELSE /\ accepted'[main_conn] = "no"
                 /\ task_queue' = task_queue]_vars
    /\ [](main_pc = "submit" => ENABLED Submit)

\* a connection was admitted, and is still queued, with every worker
\* counted active; another was rejected
C3_Witness ==
    /\ main_pc = "accept"
    /\ main_conn # NoConn
    /\ accepted[main_conn] = "yes"
    /\ InQueue(main_conn) = 1
    /\ active_count = max_workers
    /\ \E c \in Conns : accepted[c] = "no"

RejectStep == main_pc = "submit" /\ main_pc' = "reject"

\* C4 as claimed: a connection is rejected only when max_workers
\* connections are being handled and CONN_QUEUE_MAX are pending.
C4_RejectOnlyWhenAllBusy ==
    [][RejectStep =>
          /\ Len(task_queue) = CONN_QUEUE_MAX
          /\ Cardinality(Busy) = max_workers]_vars

\* C4 as amended: a connection is rejected only when CONN_QUEUE_MAX
\* connections are pending, with any number 0..max_workers of connections
\* held by workers; while none has completed, the number admitted before the
\* rejection is CONN_QUEUE_MAX plus the number the workers have dequeued.
C4_RejectOnlyWhenQueueFull ==
    [][RejectStep =>
          /\ Len(task_queue) = CONN_QUEUE_MAX
          /\ Cardinality(Busy) \in 0..max_workers
          /\ (\A c \in Conns : ~Completed(c)) =>
                Cardinality(Admitted) = CONN_QUEUE_MAX + Cardinality(Busy)]_vars

\* max_workers + CONN_QUEUE_MAX connections were admitted, none has
\* completed, and the next one has just been rejected
C4_Witness ==
    /\ main_pc = "reject"
    /\ arrived = max_workers + CONN_QUEUE_MAX + 1
    /\ Admitted = 1..(max_workers + CONN_QUEUE_MAX)
    /\ Cardinality(Busy) = max_workers
    /\ Len(task_queue) = CONN_QUEUE_MAX
    /\ \A c \in Conns : ~Completed(c)

\* the accept loop has left the rejection branch it entered for c
RejectionOver(c) == accepted[c] = "no" /\ (main_conn # c \/ main_pc = "accept")

\* C5: once the rejection branch is over for a connection, its socket is
\* closed, and what was written on it, if the write went through, is one 503
\* response with Retry-After: 5 and Connection: close.
C5_RejectedSocketClosed ==
    \A c \in Conns :
        RejectionOver(c) =>
            /\ sock[c] = "closed"
            /\ \A i \in 1..Len(sent503[c]) :
                  /\ sent503[c][i].status = 503
                  /\ DictGet(sent503[c][i].headers, "Retry-After", "") = "5"
                  /\ DictGet(sent503[c][i].headers, "Connection", "") = "close"

(***************************************************************************)
(* Properties of one connection's handler, under SpecConn.                 *)
(***************************************************************************)
\* worker w is between two passes of the loop, or between the loop and the
\* teardown: req[w] and written[w] are those of the last pass that read
InHandler(w) == w_pc[w] \in {"loop", "closing"}

\* C6: when handle_client_connection has returned, the socket is closed;
\* and when the worker has left its finally clause, whether the handler
\* returned or raised, the socket is closed.
C6_SocketClosedOnEveryExit ==
    /\ \A w \in Workers :
          w_pc[w] = "finally" /\ ~raised[w] => sock[w_conn[w]] = "closed"
    /\ \A c \in Conns : Completed(c) => sock[c] = "closed"

C6_Witness ==
    \E w \in Workers :
        /\ w_pc[w] = "finally"
        /\ ~raised[w]
        /\ handled[w_conn[w]] = 1
        /\ sock[w_conn[w]] = "closed"

\* C7: requests_handled never exceeds KEEP_ALIVE_MAX_REQUESTS, nor does the
\* number of requests read; and a pass that starts with
\* KEEP_ALIVE_MAX_REQUESTS requests handled reads nothing, writes nothing and
\* leaves the loop.
C7_RequestCap ==
    /\ [](\A w \in Workers :
            /\ requests_handled[w] <= KEEP_ALIVE_MAX_REQUESTS
            /\ reads[w] <= KEEP_ALIVE_MAX_REQUESTS)
    /\ [][\A w \in Workers :
            w_pc[w] = "loop" /\ requests_handled[w] >= KEEP_ALIVE_MAX_REQUESTS =>
                /\ reads'[w] = reads[w]
                /\ written'[w] = written[w]
                /\ w_pc'[w] \in {"loop", "closing"}
                /\ w_pc'[w] = "loop" => UNCHANGED <<requests_handled, keep_alive, req>>]_vars

\* the cap ended a connection whose last request asked to keep it alive
C7_Witness ==
    \E w \in Workers :
        /\ w_pc[w] = "closing"
        /\ requests_handled[w] = KEEP_ALIVE_MAX_REQUESTS
        /\ keep_alive[w]

\* the request passed parse_http_request and the handler's Host check
PassedValidation(r) ==
    /\ r.raw = "request"
    /\ valid_host_header(DictGet(r.headers, "Host", None), SERVER_HOST, SERVER_PORT).ok

\* header names as HTTP reads them: the letter case does not matter
LowerName(k) ==
    CASE k = "Connection" -> "connection"
      [] k = "Host" -> "host"
      [] k = "Content-Type" -> "content-type"
      [] k = "Content-Length" -> "content-length"
      [] OTHER -> k

HeaderValue(headers, name, default) ==
    IF \E k \in DOMAIN headers : LowerName(k) = LowerName(name)
    THEN headers[CHOOSE k \in DOMAIN headers : LowerName(k) = LowerName(name)]
    ELSE default

ClaimedKeepAlive(r) ==
    LET value == Lower(HeaderValue(r.headers, "Connection", ""))
    IN IF r.version = "HTTP/1.1" THEN value # "close" ELSE value = "keep-alive"

\* C8: after a request that passed parsing and Host validation, the
\* keep-alive flag is the one the request's version and Connection header
\* give, and the handler closes when the flag is false.  (The claim also says
\* that the handler closes only when the flag is false.)
C8_KeepAliveFromRequest ==
    \A w \in Workers :
        InHandler(w) /\ PassedValidation(req[w]) =>
            /\ keep_alive[w] = ClaimedKeepAlive(req[w])
            /\ ~keep_alive[w] => w_pc[w] = "closing"

ErrorStatuses == {400, 403, 404, 405, 415, 500}

\* the call sites of send_error in handle_client_connection that are
\* followed by a break
BreakingSites == {"parse", "host", "content_length", "unexpected"}

\* C9 as claimed: after an error response the handler is on its way to close.
C9_ErrorThenClose ==
    \A w \in Workers :
        InHandler(w) =>
            \A i \in 1..Len(written[w]) :
                written[w][i].status \in ErrorStatuses => w_pc[w] = "closing"

\* C9 as amended: after an error response of the handler itself (malformed
\* request, Host failure, invalid Content-Length, unexpected exception) the
\* handler is on its way to close; after an error response of the dispatch
\* (handle_get, handle_post, the 405) it closes when keep_alive is false and
\* tests the loop condition again when keep_alive is true.
C9_HandlerErrorsClose ==
    \A w \in Workers :
        InHandler(w) =>
            \A i \in 1..Len(written[w]) :
                written[w][i].status \in ErrorStatuses =>
                    IF written[w][i].src \in BreakingSites
                    THEN w_pc[w] = "closing"
                    ELSE /\ ~keep_alive[w] => w_pc[w] = "closing"
                         /\ keep_alive[w] =>
                               \/ w_pc[w] = "loop"
                               \/ requests_handled[w] = KEEP_ALIVE_MAX_REQUESTS

\* a 404 went out and the handler is back at the top of the loop
C9_Witness ==
    \E w \in Workers :
        /\ w_pc[w] = "loop"
        /\ requests_handled[w] < KEEP_ALIVE_MAX_REQUESTS
        /\ \E i \in 1..Len(written[w]) : written[w][i].status = 404

\* C10: when the handler is about to close after having written a response
\* to the last request it read, the last response written carries
\* Connection: close.
C10_LastResponseSaysClose ==
    \A w \in Workers :
        w_pc[w] = "closing" /\ req[w].raw \in {"request", "malformed"}
                           /\ written[w] # <<>> =>
            DictGet(written[w][Len(written[w])].headers, "Connection", "") = "close"

\* the value of "Keep-Alive: timeout=.., max=.."
KeepAliveValue == <<"timeout", KEEP_ALIVE_TIMEOUT, "max", KEEP_ALIVE_MAX_REQUESTS>>

\* after the last pass the handler reads another request
StaysOpen(w) == w_pc[w] = "loop" /\ requests_handled[w] < KEEP_ALIVE_MAX_REQUESTS

\* C11: every response after which the connection stays open for another
\* request carries Connection: keep-alive and Keep-Alive: timeout=30,
\* max=<cap>; and no response with Connection: close carries a Keep-Alive
\* header.
C11_KeepAliveHeaderPair ==
    \A w \in Workers :
        InHandler(w) =>
            \A i \in 1..Len(written[w]) :
                LET headers == written[w][i].headers
                IN /\ StaysOpen(w) =>
                        /\ DictGet(headers, "Connection", "") = "keep-alive"
                        /\ DictGet(headers, "Keep-Alive", "") = KeepAliveValue
                   /\ DictGet(headers, "Connection", "") = "close" =>
                        "Keep-Alive" \notin DOMAIN headers

\* the last pass served a GET whose response head went out and whose body
\* then failed: the file read raised, or the socket write did
FailedAfterHead(w) ==
    /\ req[w].raw = "request"
    /\ req[w].method = "GET"
    /\ written[w] # <<>>
    /\ written[w][1].status = 200
    /\ \/ req[w].file = "bin_read_fail"
       \/ req[w].file = "bin" /\ req[w].net = "drop_mid"

\* C12: when a GET fails after its response head was written, nothing more
\* is written for that request (no 500 after the head) and the handler is on
\* its way to close; a 500 is only ever the first thing written for a
\* request.
C12_NoResponseAfterHead ==
    \A w \in Workers :
        InHandler(w) =>
            /\ FailedAfterHead(w) => Len(written[w]) = 1 /\ w_pc[w] = "closing"
            /\ \A i \in 1..Len(written[w]) : written[w][i].status = 500 => i = 1

(***************************************************************************)
(* safe_join_resources, called on its own.                                 *)
(*                                                                         *)
(* A path is a sequence of names.  A request target is lead slashes        *)
(* followed by names joined with "/", the names as sent (percent-encoded). *)
(* The file system fs maps the path of every symbolic link to the path it  *)
(* points to.                                                              *)
(***************************************************************************)
\* BASE_DIR and RESOURCE_DIR
BASE_DIR == <<"srv">>

RESOURCE_DIR == Append(BASE_DIR, "resources")

\* a directory beside the root whose name starts with the root's name
SiblingDir == Append(BASE_DIR, "resources_old")

\* str.startswith on names
NameStartsWith(a, b) == a = b \/ (a = "resources_old" /\ b = "resources")

\* urllib.parse.unquote on a name
unquote(name) ==
    CASE name = "%2e%2e" -> ".."
      [] name = "%00" -> "NUL"
      [] OTHER -> name

\* urlparse(path).path: a target that starts with "//" has a network
\* location, which ends at the next "/"
urlparse_path(target) ==
    IF target.lead < 2
    THEN target
    ELSE IF target.lead = 2
    THEN IF Len(target.segs) >= 2
         THEN [lead |-> 1, segs |-> Tail(target.segs)]
         ELSE [lead |-> 0, segs |-> <<>>]
    ELSE [lead |-> target.lead - 2, segs |-> target.segs]

\* ".." in clean_path
ContainsDotDot(segs) == \E i \in 1..Len(segs) : segs[i] \in {"..", "a..b"}

\* os.path.realpath(base + rest): "." is dropped, a symbolic link is
\* replaced by what it points to
RECURSIVE realpath(_, _, _)
realpath(fs, base, rest) ==
    IF rest = <<>>
    THEN IF base \in DOMAIN fs THEN realpath(fs, fs[base], <<>>) ELSE base
    ELSE IF base \in DOMAIN fs
    THEN realpath(fs, fs[base], rest)
    ELSE IF Head(rest) = "."
    THEN realpath(fs, base, Tail(rest))
    ELSE realpath(fs, Append(base, Head(rest)), Tail(rest))

\* cand_real.startswith(res_real), on the strings "/" + "/".join(names)
StartsWith(cand, root) ==
    /\ Len(cand) >= Len(root)
    /\ root # <<>> =>
          /\ SubSeq(cand, 1, Len(root) - 1) = SubSeq(root, 1, Len(root) - 1)
          /\ NameStartsWith(cand[Len(root)], root[Len(root)])

safe_join_resources(path, fs) ==
    IF path.lead = 0 /\ path.segs = <<>>
    THEN None
    ELSE LET parsed == urlparse_path(path)
             clean_path == [lead |-> parsed.lead,
                            segs |-> [i \in 1..Len(parsed.segs) |-> unquote(parsed.segs[i])]]
         IN IF ContainsDotDot(clean_path.segs) \/ clean_path.lead >= 2
            THEN None
            ELSE LET names == IF clean_path.segs = <<>> THEN <<"index.html">>
                              ELSE clean_path.segs
                 IN IF \E i \in 1..Len(names) : names[i] = "NUL"
                    THEN None
                    ELSE LET cand_real == realpath(fs, RESOURCE_DIR, names)
                             res_real == realpath(fs, RESOURCE_DIR, <<>>)
                         IN IF ~StartsWith(cand_real, res_real) THEN None ELSE cand_real

\* the names of a request target
TargetNames == {"index.html", "sub", "link", ".", "..", "%2e%2e", "a..b", "%00"}

MaxSegs == 2

MaxLead == 4

Targets ==
    {[lead |-> l, segs |-> s] :
        l \in 0..MaxLead,
        s \in UNION {[1..n -> TargetNames] : n \in 0..MaxSegs}}

\* what RESOURCE_DIR/link is: no link, a link to a directory under the
\* root, to the directory beside the root, to a directory elsewhere; and
\* the same when RESOURCE_DIR itself is a link
Link == Append(RESOURCE_DIR, "link")

LinkTargets == {Append(RESOURCE_DIR, "sub"), SiblingDir, <<"etc">>}

RootTarget == <<"data", "www">>

FileSystems ==
    {EmptyDict}
    \cup {Link :> t : t \in LinkTargets}
    \cup {(RESOURCE_DIR :> RootTarget) @@ (Append(RootTarget, "link") :> t) :
            t \in {Append(RootTarget, "sub"), <<"data", "www2">>, SiblingDir}}

InitPath ==
    /\ ServerStart
    /\ \E target \in Targets, fs \in FileSystems :
          call = [fn |-> "safe_join_resources", path |-> target, fs |-> fs,
                  returned |-> FALSE]

CallSafeJoin ==
    /\ call.fn = "safe_join_resources"
    /\ ~call.returned
    /\ call' = [fn |-> call.fn, path |-> call.path, fs |-> call.fs, returned |-> TRUE,
                result |-> safe_join_resources(call.path, call.fs)]
    /\ UNCHANGED serverVars

NextPath == CallSafeJoin

SpecPath == InitPath /\ [][NextPath]_vars

\* the decoded path of a request target
DecodedPath(target) ==
    LET parsed == urlparse_path(target)
    IN [lead |-> parsed.lead,
        segs |-> [i \in 1..Len(parsed.segs) |-> unquote(parsed.segs[i])]]

\* p is the root or lies under the root followed by a path separator
IsUnder(p, root) == Len(p) >= Len(root) /\ SubSeq(p, 1, Len(root)) = root

\* C13: a path returned by safe_join_resources is the canonical resource
\* root or lies under it as a directory, whatever links and directories
\* exist beside the root; and a target whose decoded path contains ".." or
\* starts with "//" yields no path.
C13_ResultUnderRoot ==
    call.fn = "safe_join_resources" /\ call.returned =>
        /\ call.result # None =>
              IsUnder(realpath(call.fs, call.result, <<>>),
                      realpath(call.fs, RESOURCE_DIR, <<>>))
        /\ (ContainsDotDot(DecodedPath(call.path).segs) \/ DecodedPath(call.path).lead >= 2) =>
              call.result = None

(***************************************************************************)
(* valid_host_header, called on its own with any server identity.          *)
(***************************************************************************)
HostNames == {"127.0.0.1", "localhost", "0.0.0.0", "example.com", "evil.example", "", " "}

PortTexts == {"8080", "9090", "08080", "abc", ""}

HostHeaders ==
    {None}
    \cup {[host |-> h, colon |-> FALSE, port |-> ""] : h \in HostNames}
    \cup {[host |-> h, colon |-> TRUE, port |-> p] : h \in HostNames, p \in PortTexts}

BindHosts == {"127.0.0.1", "localhost", "0.0.0.0", "example.com", "192.168.1.5"}

BindPorts == {DEFAULT_PORT, 9090}

InitHost ==
    /\ ServerStart
    /\ \E h \in HostHeaders, bh \in BindHosts, bp \in BindPorts :
          call = [fn |-> "valid_host_header", host_header |-> h, server_host |-> bh,
                  server_port |-> bp, returned |-> FALSE]

CallValidHost ==
    /\ call.fn = "valid_host_header"
    /\ ~call.returned
    /\ call' = [fn |-> call.fn, host_header |-> call.host_header,
                server_host |-> call.server_host, server_port |-> call.server_port,
                returned |-> TRUE,
                result |-> valid_host_header(call.host_header, call.server_host,
                                             call.server_port)]
    /\ UNCHANGED serverVars

NextHost == CallValidHost

SpecHost == InitHost /\ [][NextHost]_vars

\* the Host value is missing or empty
HostMissing(h) == h = None \/ (h.host = "" /\ ~h.colon)

\* the Host value has a port that is no integer
HostPortNotInteger(h) == h # None /\ h.colon /\ h.port \notin {"8080", "9090", "08080"}

\* the port of a Host value, bind_port when it has none
HostPort(h, bind_port) ==
    IF ~h.colon THEN bind_port
    ELSE IF h.port = "9090" THEN 9090 ELSE 8080

\* the names the server answers to
Allowed(bind_host, bind_port) ==
    {<<bind_host, bind_port>>}
    \cup (IF bind_host \in {"127.0.0.1", "localhost", "0.0.0.0"}
          THEN {<<"localhost", bind_port>>, <<"127.0.0.1", bind_port>>}
          ELSE {})

\* C14: valid_host_header returns 400 when the Host value is missing, empty
\* or has a non-integer port; otherwise it accepts exactly when host:port,
\* with the port defaulting to bind_port, is bind_host:bind_port or, for a
\* bind_host of 127.0.0.1, localhost or 0.0.0.0, localhost:bind_port or
\* 127.0.0.1:bind_port; and it returns 403 in every remaining case.
C14_HostVerdict ==
    call.fn = "valid_host_header" /\ call.returned =>
        LET h == call.host_header
            bh == call.server_host
            bp == call.server_port
        IN IF HostMissing(h) \/ HostPortNotInteger(h)
           THEN call.result = [ok |-> FALSE, result |-> 400]
           ELSE IF <<h.host, HostPort(h, bp)>> \in Allowed(bh, bp)
           THEN call.result = [ok |-> TRUE, result |-> <<h.host, HostPort(h, bp)>>]
           ELSE call.result = [ok |-> FALSE, result |-> 403]

\* a server bound to 0.0.0.0 accepted "localhost", the port left out
C14_Witness ==
    /\ call.fn = "valid_host_header"
    /\ call.returned
    /\ call.server_host = "0.0.0.0"
    /\ call.host_header = [host |-> "localhost", colon |-> FALSE, port |-> ""]
    /\ call.result.ok

(***************************************************************************)
(* The POST branch of handle_client_connection up to the call of           *)
(* handle_post, for a Content-Length that int() accepts.  Lengths are in   *)
(* bytes: body is len(body), first the part of the body that came with     *)
(* the head; avail is what the peer still sends before it shuts down or    *)
(* the read times out.                                                     *)
(***************************************************************************)
\* the largest body, and the largest chunk of one recv (4096 in the code)
MaxBody == 4

RecvChunkMax == 2

Min(a, b) == IF a < b THEN a ELSE b

InitBody ==
    /\ ServerStart
    /\ \E expected \in (0 - 1)..MaxBody, prefix \in 0..MaxBody, avail \in 0..MaxBody :
          call = [fn |-> "read_body", pc |-> "content_length", expected |-> expected,
                  body |-> prefix, avail |-> avail, remaining |-> 0]

\* remaining = expected - len(body)
BodyRemaining ==
    /\ call.fn = "read_body"
    /\ call.pc = "content_length"
    /\ call' = [call EXCEPT !.remaining = call.expected - call.body, !.pc = "while"]
    /\ UNCHANGED serverVars

\* chunk = client_sock.recv(min(4096, remaining)) returns n bytes
BodyRecv(n) ==
    /\ call.fn = "read_body"
    /\ call.pc = "while"
    /\ call.remaining > 0
    /\ n \in 1..Min(Min(RecvChunkMax, call.remaining), call.avail)
    /\ call' = [call EXCEPT !.body = @ + n, !.remaining = @ - n, !.avail = @ - n]
    /\ UNCHANGED serverVars

\* the recv returns b"" or raises: break
BodyRecvEmpty ==
    /\ call.fn = "read_body"
    /\ call.pc = "while"
    /\ call.remaining > 0
    /\ call.avail = 0
    /\ call' = [call EXCEPT !.pc = "handle_post"]
    /\ UNCHANGED serverVars

\* the while condition is false: handle_post(.., body, ..)
BodyComplete ==
    /\ call.fn = "read_body"
    /\ call.pc = "while"
    /\ call.remaining <= 0
    /\ call' = [call EXCEPT !.pc = "handle_post"]
    /\ UNCHANGED serverVars

NextBody ==
    \/ BodyRemaining
    \/ \E n \in 1..RecvChunkMax : BodyRecv(n)
    \/ BodyRecvEmpty
    \/ BodyComplete

SpecBody == InitBody /\ [][NextBody]_vars

\* C15: the body passed to handle_post for a POST with an integer
\* Content-Length n (n a length, not negative) is exactly n bytes long,
\* whatever came with the head and whatever the peer sends afterwards.
C15_BodyIsContentLength ==
    call.fn = "read_body" /\ call.pc = "handle_post" /\ call.expected >= 0 =>
        call.body = call.expected

(***************************************************************************)
(* The writes of a 200 or 201 response, in bytes.  kind is "html" (the     *)
(* file is read whole and sent with the head in one sendall), "created"    *)
(* (the 201 of handle_post, sent the same way) or "bin" (the head is sent  *)
(* with the size getsize gave, then the file is read and sent in chunks    *)
(* until read returns nothing).  file is the size of the file, or of the   *)
(* 201 body; another process may change a file while it is served.         *)
(*   content_length  the value of the Content-Length header                *)
(*   head            the response head was written                        *)
(*   sent            body bytes written to the socket                      *)
(*   offset          the position of the open file                         *)
(***************************************************************************)
MaxFile == 3

FILE_READ_CHUNK == 2

\* hdrs.setdefault("Content-Length", str(len(body)))
content_length_header(headers, body_len) == DictGet(headers, "Content-Length", body_len)

InitSend ==
    /\ ServerStart
    /\ \E kind \in {"html", "created", "bin"}, size \in 0..MaxFile :
          call = [fn |-> "send", kind |-> kind, pc |-> "start", file |-> size,
                  changed |-> FALSE, content_length |-> 0, head |-> FALSE,
                  sent |-> 0, offset |-> 0]

\* content = f.read(); sock.sendall(make_response(200, "OK", headers_out, content)),
\* and the same for the 201: when the sendall fails, n body bytes were written
SendWhole(ok, n) ==
    /\ call.fn = "send"
    /\ call.kind \in {"html", "created"}
    /\ call.pc = "start"
    /\ IF ok THEN n = call.file ELSE n < call.file \/ n = 0
    /\ call' = [call EXCEPT
                    !.content_length =
                        content_length_header("Content-Length" :> call.file, call.file),
                    !.head = ok \/ n > 0,
                    !.sent = n,
                    !.pc = IF ok THEN "done" ELSE "failed"]
    /\ UNCHANGED serverVars

\* file_size = os.path.getsize(file_path); sock.sendall(make_response(200, "OK", headers_out))
SendHead(ok) ==
    /\ call.fn = "send"
    /\ call.kind = "bin"
    /\ call.pc = "start"
    /\ call' = [call EXCEPT
                    !.content_length = content_length_header("Content-Length" :> call.file, 0),
                    !.head = ok,
                    !.pc = IF ok THEN "stream" ELSE "failed"]
    /\ UNCHANGED serverVars

\* chunk = f.read(FILE_READ_CHUNK); sock.sendall(chunk): n bytes were written
SendChunk(ok, n) ==
    /\ call.fn = "send"
    /\ call.pc = "stream"
    /\ call.file > call.offset
    /\ LET chunk == Min(FILE_READ_CHUNK, call.file - call.offset)
       IN /\ IF ok THEN n = chunk ELSE n < chunk
          /\ call' = [call EXCEPT
                          !.offset = @ + chunk,
                          !.sent = @ + n,
                          !.pc = IF ok THEN "stream" ELSE "failed"]
    /\ UNCHANGED serverVars

\* if not chunk: break
SendEof ==
    /\ call.fn = "send"
    /\ call.pc = "stream"
    /\ call.file <= call.offset
    /\ call' = [call EXCEPT !.pc = "done"]
    /\ UNCHANGED serverVars

\* another process appends to the file or truncates it
FileChange(size) ==
    /\ call.fn = "send"
    /\ call.kind = "bin"
    /\ call.pc \in {"start", "stream"}
    /\ ~call.changed
    /\ size # call.file
    /\ call' = [call EXCEPT !.file = size, !.changed = TRUE]
    /\ UNCHANGED serverVars

NextSend ==
    \/ \E ok \in BOOLEAN, n \in 0..MaxFile : SendWhole(ok, n)
    \/ \E ok \in BOOLEAN : SendHead(ok)
    \/ \E ok \in BOOLEAN, n \in 0..FILE_READ_CHUNK : SendChunk(ok, n)
    \/ SendEof
    \/ \E size \in 0..MaxFile : FileChange(size)

SpecSend == InitSend /\ [][NextSend]_vars

\* C16: when a 200 or 201 response has been written to its end, the
\* Content-Length value is the number of body bytes written, also when the
\* file changed while it was served.  (The claim says the same of a response
\* whose writes failed part-way.)
C16_ContentLengthIsBodyWritten ==
    call.fn = "send" /\ call.pc = "done" => call.content_length = call.sent

\* Content-Length values that are no length: no non-negative decimal integer
NotALength(text) == text \in {"abc", "-5"}

\* C17: a POST whose Content-Length is no valid length is answered with 400
\* by the handler itself and the handler then closes; handle_post is not
\* called, so nothing is uploaded and no 201 is written.
C17_BadContentLengthIs400 ==
    \A w \in Workers :
        (/\ InHandler(w)
         /\ PassedValidation(req[w])
         /\ req[w].method = "POST"
         /\ NotALength(DictGet(req[w].headers, "Content-Length", ""))) =>
            /\ w_pc[w] = "closing"
            /\ \A i \in 1..Len(written[w]) :
                  /\ written[w][i].status = 400
                  /\ written[w][i].src = "content_length"

\* worker w's step is a pass whose read gave nothing
ReadsNothing(w) ==
    /\ w_pc[w] = "loop"
    /\ reads'[w] = reads[w] + 1
    /\ req'[w] = EmptyRead

\* C18: a pass whose read times out or returns empty writes no response,
\* leaves requests_handled as it was and leaves the loop; and the teardown
\* that follows ends with the socket closed.  This holds at the first read
\* and after any number of served requests.
C18_SilentCloseOnEmptyRead ==
    /\ [][\A w \in Workers :
            ReadsNothing(w) =>
                /\ written'[w] = <<>>
                /\ requests_handled'[w] = requests_handled[w]
                /\ w_pc'[w] = "closing"]_vars
    /\ [][\A w \in Workers :
            (w_pc[w] = "closing" /\ req[w] = EmptyRead /\ w_pc'[w] # "closing") =>
                sock'[w_conn[w]] = "closed"]_vars

\* a connection that was served a request went quiet at its next read
C18_Witness ==
    \E w \in Workers :
        /\ w_pc[w] = "closing"
        /\ req[w] = EmptyRead
        /\ requests_handled[w] >= 1
        /\ reads[w] = requests_handled[w] + 1
        /\ written[w] = <<>>

(***************************************************************************)
(* Properties of the worker loop and the accept loop under faults.         *)
(***************************************************************************)
\* workers between the increment and the decrement of active_count
InsideHandler ==
    {w \in Workers : w_pc[w] \in {"call", "loop", "closing", "except", "finally"}}

\* workers that still run _worker_loop
LiveWorkers ==
    {w \in Workers :
        w_pc[w] \in {"get", "inc", "call", "loop", "closing", "except", "finally"}}

\* the step leaves every other worker and the accept loop as they were
OnlyWorker(w) ==
    /\ \A v \in Workers \ {w} :
          /\ w_pc'[v] = w_pc[v]
          /\ w_conn'[v] = w_conn[v]
          /\ raised'[v] = raised[v]
          /\ logged'[v] = logged[v]
    /\ \A c \in Conns \ {w_conn[w]} : sock'[c] = sock[c]
    /\ UNCHANGED <<mainVars, task_queue, handled, handlerVars>>

UserInterrupt == [kind |-> "KeyboardInterrupt", logged |-> TRUE]

\* server_sock.accept() raises an Exception: the except clause of the loop
\* body passes and the loop goes on
AcceptRaises ==
    /\ main_pc = "accept"
    /\ main_exc' = SwallowedException
    /\ UNCHANGED <<call, arrived, sock, poolVars, main_pc, main_conn, accepted, sent503,
                   w_pc, w_conn, raised, logged, handled, handlerVars>>

\* KeyboardInterrupt is raised in the main thread, wherever it is
Interrupt ==
    /\ main_pc # "stopped"
    /\ main_exc' = UserInterrupt
    /\ main_pc' = "stopped"
    /\ UNCHANGED <<call, arrived, sock, poolVars, main_conn, accepted, sent503,
                   w_pc, w_conn, raised, logged, handled, handlerVars>>

NextFaults ==
    \/ Accept(NumConns)
    \/ AcceptRaises
    \/ Submit
    \/ \E send_ok \in BOOLEAN : Reject503(send_ok)
    \/ RejectClose
    \/ Interrupt
    \/ \E w \in Workers : main_pc # "stopped" /\ WorkerStep(w)
    \/ \E w \in Workers, inp \in PoolInputs : main_pc # "stopped" /\ Iterate(w, inp)

SpecFaults == Init /\ [][NextFaults]_vars

\* C20: an exception other than a user interrupt raised inside an iteration
\* of the accept loop is logged and the loop goes on; only a user interrupt
\* stops the loop.
C20_AcceptLoopLogsAndGoesOn ==
    /\ main_exc.kind = "Exception" => main_exc.logged /\ main_pc # "stopped"
    /\ main_pc = "stopped" => main_exc.kind = "KeyboardInterrupt"

(***************************************************************************)
(* Properties of the handler's use of the request headers, under SpecConn. *)
(***************************************************************************)
\* the usual spelling of a header name
CanonName(k) ==
    CASE k = "host" -> "Host"
      [] k = "connection" -> "Connection"
      [] k = "content-type" -> "Content-Type"
      [] k = "content-length" -> "Content-Length"
      [] OTHER -> k

\* the same headers under the usual spelling of their names
CanonHeaders(headers) ==
    [k \in {CanonName(x) : x \in DOMAIN headers} |->
        headers[CHOOSE x \in DOMAIN headers : CanonName(x) = k]]

\* what the pass that read request r as its n-th read gives when the header
\* names are spelled as usual
CanonPass(r, n) ==
    Iteration(n - 1, TRUE, n - 1, NoReq, <<>>, [r EXCEPT !.headers = CanonHeaders(@)])

\* C21: the letter case of the header names Host, Connection, Content-Type
\* and Content-Length does not matter: what the handler wrote for a
\* request, its keep-alive flag and whether it goes on are what they are
\* for the same request with the names spelled as usual.
C21_HeaderNamesAnyCase ==
    \A w \in Workers :
        InHandler(w) /\ req[w].raw = "request" =>
            LET r == CanonPass(req[w], reads[w])
            IN /\ written[w] = r.written
               /\ keep_alive[w] = r.keep_alive
               /\ w_pc[w] = "loop" => r.next = "loop"
               /\ r.next = "closing" => w_pc[w] = "closing"

(***************************************************************************)
(* thread_pool.py: class ThreadPool on its own.  Tasks are numbered 1..n   *)
(* in the order they are passed to submit.                                 *)
(*   task_queue      queue.Queue(), without a maxsize                      *)
(*   active_threads  the counter                                           *)
(*   shutdown_flag   the Event                                             *)
(*   pc, task        where each worker thread is, and the task it took     *)
(*   submitted       number of submit calls so far                         *)
(*   fate            per task: "none", "queued", "rejected"                *)
(*   runs            per task: number of times the task was called      *)
(* The program's values are 10 threads and 50 waiting tasks.               *)
(***************************************************************************)
max_threads == 2

QueueSaturated == 1

NumTasks == 3

Threads == 1..max_threads

Tasks == 1..NumTasks

NoTask == 0

InitThreadPool ==
    /\ ServerStart
    /\ call = [fn |-> "ThreadPool", task_queue |-> <<>>, active_threads |-> 0,
               shutdown_flag |-> FALSE,
               pc |-> [t \in Threads |-> "while"],
               task |-> [t \in Threads |-> NoTask],
               submitted |-> 0,
               fate |-> [k \in Tasks |-> "none"],
               runs |-> [k \in Tasks |-> 0]]

\* submit, called before shutdown: at qsize() >= 50 submit
\* raises queue.Full itself and catches it, otherwise the task is put
PoolSubmit ==
    /\ call.fn = "ThreadPool"
    /\ ~call.shutdown_flag
    /\ call.submitted < NumTasks
    /\ LET k == call.submitted + 1
       IN IF Len(call.task_queue) >= QueueSaturated
          THEN call' = [call EXCEPT !.submitted = k, !.fate[k] = "rejected"]
          ELSE call' = [call EXCEPT !.submitted = k, !.fate[k] = "queued",
                                    !.task_queue = Append(@, k)]
    /\ UNCHANGED serverVars

\* while not self.shutdown_flag.is_set()
PoolWhile(t) ==
    /\ call.fn = "ThreadPool"
    /\ call.pc[t] = "while"
    /\ call' = [call EXCEPT !.pc[t] = IF call.shutdown_flag THEN "exit" ELSE "get"]
    /\ UNCHANGED serverVars

\* func, args = self.task_queue.get(timeout=1) returns a task;
\* self.active_threads += 1
PoolGet(t) ==
    /\ call.fn = "ThreadPool"
    /\ call.pc[t] = "get"
    /\ call.task_queue # <<>>
    /\ call' = [call EXCEPT !.pc[t] = "func", !.task[t] = Head(call.task_queue),
                            !.task_queue = Tail(@), !.active_threads = @ + 1]
    /\ UNCHANGED serverVars

\* the get times out: except queue.Empty: continue
PoolGetEmpty(t) ==
    /\ call.fn = "ThreadPool"
    /\ call.pc[t] = "get"
    /\ call.task_queue = <<>>
    /\ call' = [call EXCEPT !.pc[t] = "while"]
    /\ UNCHANGED serverVars

\* the call of the task, an exception of which is logged; self.active_threads -= 1;
\* task_done()
PoolRun(t) ==
    /\ call.fn = "ThreadPool"
    /\ call.pc[t] = "func"
    /\ call' = [call EXCEPT !.pc[t] = "while", !.runs[call.task[t]] = @ + 1,
                            !.task[t] = NoTask, !.active_threads = @ - 1]
    /\ UNCHANGED serverVars

\* shutdown(): self.shutdown_flag.set()
PoolShutdown ==
    /\ call.fn = "ThreadPool"
    /\ ~call.shutdown_flag
    /\ call' = [call EXCEPT !.shutdown_flag = TRUE]
    /\ UNCHANGED serverVars

NextThreadPool ==
    \/ PoolSubmit
    \/ \E t \in Threads : PoolWhile(t)
    \/ \E t \in Threads : PoolGet(t)
    \/ \E t \in Threads : PoolGetEmpty(t)
    \/ \E t \in Threads : PoolRun(t)
    \/ PoolShutdown

SpecThreadPool == InitThreadPool /\ [][NextThreadPool]_vars

\* C22: every task passed to submit before shutdown is placed on the queue
\* (it waits there while the workers are busy and is never dropped) and is
\* run at most once; a task that is neither waiting nor held by a worker
\* has been run exactly once.
C22_NoTaskDropped ==
    call.fn = "ThreadPool" =>
        \A k \in 1..call.submitted :
            /\ call.fate[k] = "queued"
            /\ call.runs[k] <= 1
            /\ (/\ \A i \in 1..Len(call.task_queue) : call.task_queue[i] # k
                /\ \A t \in Threads : call.task[t] # k) => call.runs[k] = 1

\* the status valid_host_header gives for request r
ValidatorStatus(r) ==
    valid_host_header(DictGet(r.headers, "Host", None), SERVER_HOST, SERVER_PORT).result

\* C23: a request that fails the Host validation is answered with nothing
\* but the validator's status (400 or 403), whatever its method, and the
\* handler is then on its way to close without having counted the request:
\* handle_get, handle_post and the 405 branch wrote nothing.  A 405 is
\* written only for a request that passed the validation and whose method
\* is neither GET nor POST.
C23_ValidationBeforeDispatch ==
    \A w \in Workers :
        InHandler(w) /\ req[w].raw = "request" =>
            /\ ~PassedValidation(req[w]) =>
                  /\ w_pc[w] = "closing"
                  /\ requests_handled[w] = reads[w] - 1
                  /\ Len(written[w]) <= 1
                  /\ \A i \in 1..Len(written[w]) :
                        /\ written[w][i].status = ValidatorStatus(req[w])
                        /\ written[w][i].status \in {400, 403}
                        /\ written[w][i].src = "host"
            /\ \A i \in 1..Len(written[w]) :
                  written[w][i].status = 405 =>
                      /\ PassedValidation(req[w])
                      /\ req[w].method \notin {"GET", "POST"}

\* a POST from a foreign host was answered 403 and nothing else
C23_Witness ==
    \E w \in Workers :
        /\ w_pc[w] = "closing"
        /\ req[w].raw = "request"
        /\ req[w].method = "POST"
        /\ ~PassedValidation(req[w])
        /\ Len(written[w]) = 1
        /\ written[w][1].status = 403

(***************************************************************************)
(* SpecLive: the server under load with its threads scheduled fairly.      *)
(* LiveConns connections arrive; at every read a connection sends a       *)
(* request that asks to keep it alive, or nothing.  A thread that can      *)
(* take a step takes one: every worker is a thread of its own, and every   *)
(* read of the handler returns data, returns empty or times out.           *)
(***************************************************************************)
LiveConns == 3

LiveInputs ==
    {EmptyRead, Request("GET", "HTTP/1.1", GoodHost, "html", "none", "ok")}

WorkerRuns(w) ==
    \/ WorkerStep(w)
    \/ \E inp \in LiveInputs : Iterate(w, inp)

NextLive ==
    \/ Accept(LiveConns)
    \/ Submit
    \/ \E send_ok \in BOOLEAN : Reject503(send_ok)
    \/ RejectClose
    \/ \E w \in Workers : WorkerStep(w)
    \/ \E w \in Workers, inp \in LiveInputs : Iterate(w, inp)

SpecLive ==
    /\ Init
    /\ [][NextLive]_vars
    /\ \A w \in Workers : WF_vars(WorkerRuns(w))

====
